---- MODULE Spec2Model ----
(***************************************************************************)
(* State-machine model of the task scheduling and migration core:          *)
(*   src/agent/core/task_manager.py      TaskManager                       *)
(*   src/agent/device/desktop_adapter.py DesktopAdapter.can_execute_task   *)
(*   src/agent/communication/communication_layer.py  CommunicationLayer    *)
(*   src/agent/core/agent_core.py        AgentCore (status notifications)  *)
(*                                                                         *)
(* Python dicts are modelled as functions whose domain is the key set.     *)
(* Python lists are sequences; list index p is sequence index p + 1.       *)
(***************************************************************************)
EXTENDS Integers, Sequences, FiniteSets, TLC

VARIABLES
    task_queues,        \* TaskManager.task_queues: one FIFO list per priority
    active_tasks,       \* TaskManager.active_tasks: dict task id -> task
    running,            \* TaskManager.running
    lock,               \* TaskManager.lock (threading.Lock): its holder
    schedPc,            \* position of the scheduler thread
    stopPc,             \* position of the thread that called stop()
    available_devices,  \* CommunicationLayer.available_devices, in dict order
    obs,                \* what the last step did: call, result, sends issued
    device_status,      \* CommunicationLayer.device_status: dict device id -> status
    now,                \* time.time(), in units of the model's clock
    last_reported,      \* per device id, when a transport last reported it
    cycle,              \* what the last discovery step did
    agent_running,      \* AgentCore.running
    comm_running,       \* CommunicationLayer.running, the discovery loop's flag
    handler_running,    \* per protocol, the transport handler's running flag
    agentPc,            \* position of the thread inside AgentCore.start or stop
    msg,                \* what the last messaging or security call did
    backend_tasks,      \* ids of the executions the device backend is running
    head_read,          \* the scheduler's locals task and priority while it migrates
    tables,             \* the dict objects of the discovery loop, by identity
    table_ref,          \* the object self.available_devices refers to
    building,           \* the discovery loop's local discovered_devices
    reader              \* the migration step's devices.items() iteration

\* the backend's executions, the scheduler's locals and the table objects
detailVars == <<backend_tasks, head_read, tables, table_ref, building, reader>>

\* the variables of the discovery loop
discoveryVars == <<device_status, now, last_reported, cycle>>

\* the variables of the agent's life cycle and of its messaging
agentVars == <<agent_running, comm_running, handler_running, agentPc, msg>>

vars == <<task_queues, active_tasks, running, lock, schedPc, stopPc,
          available_devices, obs, discoveryVars, agentVars, detailVars>>

----------------------------------------------------------------------------
(* Bounds and configuration *)

\* most tasks waiting in the queues at once
MaxQueued == 2

\* config 'max_concurrent'
max_concurrent == 1

\* config 'priority_levels'
priority_levels == 2

\* priorities callers pass to add_task, valid and invalid
PriorityInputs == (0 - 1) .. priority_levels

TaskIds == {"t1", "t2", "t3"}
DeviceIds == {"D1", "D2"}

\* a dict with the given keys, the keys in truthy mapped to True, the others to False
Dict(keys, truthy) == [k \in keys |-> k \in truthy]

\* required_resources / available resources: {'cpu_percent': n}
Resources(n) == [r \in {"cpu_percent"} |-> n]

\* The tasks callers submit (task dictionaries of add_task's docstring)
Task(id, caps, cpu) ==
    [id |-> id, required_capabilities |-> caps, required_resources |-> Resources(cpu)]

Tasks ==
    { Task("t1", <<>>, 2),
      Task("t2", <<"camera">>, 0),
      Task("t3", <<"display">>, 2),
      Task("t1", <<"camera", "gpu">>, 2) }

\* DesktopAdapter.capabilities: a truthy entry, a falsy entry, 'gpu' missing
capabilities == Dict({"display", "camera"}, {"display"})

\* what get_available_resources() can measure for cpu_percent
AvailableLevels == {1, 2}

\* the device_info a transport reports for each peer
DeviceInfo(id) ==
    [id |-> id,
     capabilities |->
        IF id = "D1" THEN Dict({"display", "camera"}, {"display"})
                     ELSE Dict({"camera", "gpu"}, {"camera", "gpu"})]

RECURSIVE SeqsOver(_, _)
SeqsOver(S, n) ==
    IF n = 0 THEN {<<>>}
    ELSE LET shorter == SeqsOver(S, n - 1)
         IN  shorter \cup {Append(s, x) : s \in shorter, x \in S}

Range(s) == {s[i] : i \in 1..Len(s)}

\* the device tables a discovery cycle can produce: distinct ids, dict order
Directories ==
    {[i \in 1..Len(s) |-> DeviceInfo(s[i])] :
        s \in {q \in SeqsOver(DeviceIds, 2) : Cardinality(Range(q)) = Len(q)}}

\* What the last step did, as its caller or the network saw it: the call,
\* the priority it was given, the value it returned, what
\* get_available_resources measured and can_execute_task answered, the
\* send_data calls made, and for stop_task the task id it was given and what
\* the backend's stop_task answered.  Steps with nothing to report leave NoObs.
Obs(op, priority, result) ==
    [op |-> op, priority |-> priority, result |-> result,
     available |-> 0, can_execute |-> FALSE, sends |-> <<>>,
     task_id |-> "", stopped |-> FALSE]

NoObs == Obs("none", 0, FALSE)

\* config 'protocols': the keys of protocol_handlers, in dict order
Protocols == <<"wifi", "bluetooth">>

\* config 'discovery_interval', in units of the model's clock
discovery_interval == 1

\* the latest time at which a discovery cycle starts
MaxTime == 3

\* how long one handler's discover_devices() call can take
DiscoverDurations == {0, 2, 3}

\* what handler.discover_devices() does: it raises, or it returns a dict
\* whose keys (distinct device ids) come in this order
Reports ==
    {[raised |-> TRUE, devices |-> <<>>]} \cup
    {[raised |-> FALSE, devices |-> q] :
        q \in {r \in SeqsOver(DeviceIds, 2) : Cardinality(Range(r)) = Len(r)}}

\* a device_status dict with no key
NoStatus == [i \in {} |-> "new"]

\* What the last discovery step did: the step, what each handler's
\* discover_devices did and when it returned, the time the staleness sweep
\* read, device_status as the merge left it, the calls the Orchestrator's
\* status handler received, and whether the step raised to its caller.
CycleObs(op, reports, returned, current_time, merged, notified, raised) ==
    [op |-> op, reports |-> reports, returned |-> returned,
     current_time |-> current_time, merged |-> merged,
     notified |-> notified, raised |-> raised]

NoCycle == CycleObs("none", <<>>, <<>>, 0, NoStatus, <<>>, FALSE)

\* What the last messaging or security call did: the call, the value it
\* returned, the calls it made to its collaborators in order, the messages
\* the transports actually sent, and the call's inputs.
MsgObs(op, result, calls, wire, input) ==
    [op |-> op, result |-> result, calls |-> calls, wire |-> wire, input |-> input]

NoMsg == MsgObs("none", FALSE, <<>>, <<>>, <<>>)

----------------------------------------------------------------------------
(* Pure helpers *)

\* mutant: the resource test written with <=
can_execute_task_strict(task, available) ==
    /\ \A i \in 1..Len(task.required_capabilities) :
          LET c == task.required_capabilities[i]
          IN  c \in DOMAIN capabilities /\ capabilities[c]
    /\ \A r \in DOMAIN task.required_resources :
          ~ ((IF r \in DOMAIN available THEN available[r] ELSE 0)
                <= task.required_resources[r])

\* DesktopAdapter.can_execute_task
can_execute_task(task, available) ==
    /\ \A i \in 1..Len(task.required_capabilities) :
          LET c == task.required_capabilities[i]
          IN  c \in DOMAIN capabilities /\ capabilities[c]
    /\ \A r \in DOMAIN task.required_resources :
          ~ ((IF r \in DOMAIN available THEN available[r] ELSE 0)
                < task.required_resources[r])

\* mutant: the inner loop written "while True", without the slot test
HasFreeSlotUnbounded(active) == TRUE

\* mutant: the slot test written with <=
HasFreeSlotOffByOne(active) == Cardinality(DOMAIN active) <= max_concurrent

\* len(self.active_tasks) < self.max_concurrent
HasFreeSlot(active) == Cardinality(DOMAIN active) < max_concurrent

\* mutant: the scan keeps the last non-empty queue it meets (the break is missing)
LastNonEmpty(queues) ==
    IF \A i \in 1..Len(queues) : queues[i] = <<>>
    THEN 0 - 1
    ELSE (CHOOSE i \in 1..Len(queues) :
            /\ queues[i] # <<>>
            /\ \A j \in (i + 1)..Len(queues) : queues[j] = <<>>) - 1

\* the scan "for p, queue in enumerate(self.task_queues): if queue: ... break":
\* the list index of the first non-empty queue, or -1 when all are empty
FirstNonEmpty(queues) ==
    IF \A i \in 1..Len(queues) : queues[i] = <<>>
    THEN 0 - 1
    ELSE (CHOOSE i \in 1..Len(queues) :
            /\ queues[i] # <<>>
            /\ \A j \in 1..(i - 1) : queues[j] = <<>>) - 1

\* mutant: queue.pop(), which takes the newest entry
PopLast(queue) == SubSeq(queue, 1, Len(queue) - 1)

\* queue.pop(0)
PopHead(queue) == Tail(queue)

\* mutant: the pop(0) forgotten, the task stays queued
PopQueueKeep(queues, priority) == queues

\* self.task_queues[priority].pop(0)
PopQueue(queues, priority) ==
    [queues EXCEPT ![priority + 1] = PopHead(queues[priority + 1])]

\* self.active_tasks[task['id']] = task
Activate(active, task) ==
    [i \in DOMAIN active \cup {task.id} |-> IF i = task.id THEN task ELSE active[i]]

\* del self.active_tasks[task_id]
Deactivate(active, id) == [i \in DOMAIN active \ {id} |-> active[i]]

\* the scheduler is not inside _try_migrate_task
NoRead ==
    [task |-> CHOOSE t \in Tasks : TRUE, priority |-> -1, devices |-> <<>>, sends |-> <<>>]

\* "self.available_devices = {}" of CommunicationLayer.__init__
NoDevices == <<>>

\* the discovery loop is between two cycles
NotBuilding == [ref |-> 0, handler |-> 0]

\* the migration step is not iterating
NotReading == [ref |-> 0, position |-> 0, items |-> <<>>]

Init ==
    /\ task_queues = [i \in 1..priority_levels |-> <<>>]
    /\ active_tasks = [i \in {} |-> CHOOSE t \in Tasks : TRUE]
    /\ running = FALSE
    /\ lock = "free"
    /\ schedPc = "idle"
    /\ stopPc = "idle"
    /\ available_devices = <<>>
    /\ obs = NoObs
    /\ device_status = NoStatus
    /\ now = 0
    /\ last_reported = [i \in {} |-> 0]
    /\ cycle = NoCycle
    /\ agent_running = FALSE
    /\ comm_running = FALSE
    /\ handler_running = [k \in DOMAIN Protocols |-> FALSE]
    /\ agentPc = "idle"
    /\ msg = NoMsg
    /\ backend_tasks = <<>>
    /\ head_read = NoRead
    /\ tables = <<NoDevices>>
    /\ table_ref = 1
    /\ building = NotBuilding
    /\ reader = NotReading

----------------------------------------------------------------------------
(* Migration: TaskManager._try_migrate_task *)

\* mutant: any() in place of all()
EligibleOnAnyCapability(device_info, task) ==
    \E i \in 1..Len(task.required_capabilities) :
        task.required_capabilities[i] \in DOMAIN device_info.capabilities

\* all(cap in capabilities for cap in task.get('required_capabilities', []))
Eligible(device_info, task) ==
    \A i \in 1..Len(task.required_capabilities) :
        task.required_capabilities[i] \in DOMAIN device_info.capabilities

\* mutant: the offer always carries priority 0
TaskOfferTopPriority(task, priority) == [type |-> "task", task |-> task, priority |-> 0]

\* the message handed to communication.send_data
TaskOffer(task, priority) == [type |-> "task", task |-> task, priority |-> priority]

\* The loop over devices.items() from position i on: the sends it issues, in
\* order, each with the result send_data returned; it stops at the first
\* send that succeeds.  sendOk[d] is what send_data returns for device d.
RECURSIVE MigrationSends(_, _, _, _, _)
MigrationSends(devices, i, task, priority, sendOk) ==
    IF i > Len(devices) THEN <<>>
    ELSE IF Eligible(devices[i], task)
         THEN LET attempt == [device |-> devices[i].id,
                              payload |-> TaskOffer(task, priority),
                              ok |-> sendOk[devices[i].id]]
              IN  IF attempt.ok
                  THEN <<attempt>>
                  ELSE <<attempt>> \o MigrationSends(devices, i + 1, task, priority, sendOk)
         ELSE MigrationSends(devices, i + 1, task, priority, sendOk)

\* mutant: the pop placed outside "if ...send_data(...)"
MigratedOnAnySend(sends) == sends # <<>>

\* whether the loop reached "self.task_queues[priority].pop(0); break"
Migrated(sends) == sends # <<>> /\ sends[Len(sends)].ok

----------------------------------------------------------------------------
(* Actions *)

RECURSIVE TotalLen(_, _)
TotalLen(queues, n) == IF n = 0 THEN 0 ELSE Len(queues[n]) + TotalLen(queues, n - 1)

\* the number of tasks waiting, over all queues
QueuedCount == TotalLen(task_queues, Len(task_queues))

\* TaskManager.start
Start ==
    /\ schedPc = "idle"
    /\ running' = TRUE
    /\ schedPc' = "check"
    /\ obs' = NoObs
    /\ UNCHANGED <<task_queues, active_tasks, lock, stopPc, available_devices, discoveryVars, agentVars, detailVars>>

\* mutant: the validation without its "priority < 0" half
ValidPriorityNoLowerBound(priority) == priority < priority_levels

\* "priority < 0 or priority >= self.priority_levels" is false
ValidPriority(priority) == priority >= 0 /\ priority < priority_levels

\* Python list indexing self.task_queues[priority]: the sequence index, or 0
\* when the index is out of range (IndexError)
ListIndex(n, priority) ==
    IF priority >= 0 /\ priority < n THEN priority + 1
    ELSE IF priority < 0 /\ 0 - priority <= n THEN n + priority + 1
    ELSE 0

\* TaskManager.add_task with a priority the validation rejects, or whose
\* indexing raises inside the try block: returns False before taking the lock
AddTaskRejected ==
    \E priority \in PriorityInputs :
        /\ ~ ValidPriority(priority) \/ ListIndex(priority_levels, priority) = 0
        /\ obs' = Obs("add_task", priority, FALSE)
        /\ UNCHANGED <<task_queues, active_tasks, running, lock, schedPc, stopPc,
                       available_devices, discoveryVars, agentVars, detailVars>>

\* mutant: the task inserted at the head of its queue, outside "with self.lock"
AddTaskAtHeadUnlocked ==
    \E task \in Tasks, priority \in PriorityInputs :
        /\ ValidPriority(priority)
        /\ ListIndex(priority_levels, priority) # 0
        /\ QueuedCount < MaxQueued
        /\ task_queues' =
             [task_queues EXCEPT ![ListIndex(priority_levels, priority)] = <<task>> \o @]
        /\ obs' = Obs("add_task", priority, TRUE)
        /\ UNCHANGED <<active_tasks, running, lock, schedPc, stopPc, available_devices, discoveryVars, agentVars, detailVars>>

\* mutant: the append made outside "with self.lock"
AddTaskUnlocked ==
    \E task \in Tasks, priority \in PriorityInputs :
        /\ ValidPriority(priority)
        /\ ListIndex(priority_levels, priority) # 0
        /\ QueuedCount < MaxQueued
        /\ task_queues' =
             [task_queues EXCEPT ![ListIndex(priority_levels, priority)] = Append(@, task)]
        /\ obs' = Obs("add_task", priority, TRUE)
        /\ UNCHANGED <<active_tasks, running, lock, schedPc, stopPc, available_devices, discoveryVars, agentVars, detailVars>>

\* TaskManager.add_task appending under the lock and returning True
AddTaskAccepted ==
    \E task \in Tasks, priority \in PriorityInputs :
        /\ ValidPriority(priority)
        /\ ListIndex(priority_levels, priority) # 0
        /\ lock = "free"
        /\ QueuedCount < MaxQueued
        /\ task_queues' =
             [task_queues EXCEPT ![ListIndex(priority_levels, priority)] = Append(@, task)]
        /\ obs' = Obs("add_task", priority, TRUE)
        /\ UNCHANGED <<active_tasks, running, lock, schedPc, stopPc, available_devices, discoveryVars, agentVars, detailVars>>

\* mutant: the entry deleted without regard to the backend's answer
StopTaskIgnoringBackend ==
    \E id \in TaskIds, stopped \in BOOLEAN :
        /\ lock = "free"
        /\ IF id \in DOMAIN active_tasks
           THEN /\ active_tasks' = Deactivate(active_tasks, id)
                /\ obs' = [Obs("stop_task", 0, TRUE)
                             EXCEPT !.task_id = id, !.stopped = stopped]
           ELSE /\ active_tasks' = active_tasks
                /\ obs' = [Obs("stop_task", 0, FALSE) EXCEPT !.task_id = id]
        /\ UNCHANGED <<task_queues, running, lock, schedPc, stopPc, available_devices, discoveryVars, agentVars, detailVars>>

\* TaskManager.stop_task called from outside (cancel); stopped is what
\* device_adapter.stop_task returns, asked only when the id is active
StopTask ==
    \E id \in TaskIds, stopped \in BOOLEAN :
        /\ lock = "free"
        /\ id \notin DOMAIN active_tasks => ~ stopped
        /\ IF id \in DOMAIN active_tasks /\ stopped
           THEN /\ active_tasks' = Deactivate(active_tasks, id)
                /\ obs' = [Obs("stop_task", 0, TRUE)
                             EXCEPT !.task_id = id, !.stopped = stopped]
           ELSE /\ active_tasks' = active_tasks
                /\ obs' = [Obs("stop_task", 0, FALSE)
                             EXCEPT !.task_id = id, !.stopped = stopped]
        /\ UNCHANGED <<task_queues, running, lock, schedPc, stopPc, available_devices, discoveryVars, agentVars, detailVars>>

\* _scheduler_loop: "while self.running"
SchedCheck ==
    /\ schedPc = "check"
    /\ schedPc' = IF running THEN "acquire" ELSE "exited"
    /\ obs' = NoObs
    /\ UNCHANGED <<task_queues, active_tasks, running, lock, stopPc, available_devices, discoveryVars, agentVars, detailVars>>

\* _scheduler_loop: "with self.lock"
SchedAcquire ==
    /\ schedPc = "acquire"
    /\ lock = "free"
    /\ lock' = "sched"
    /\ schedPc' = "loop"
    /\ obs' = NoObs
    /\ UNCHANGED <<task_queues, active_tasks, running, stopPc, available_devices, discoveryVars, agentVars, detailVars>>

\* _scheduler_loop: the inner while ends (no free slot, or "if not task: break"),
\* the lock is released and the thread sleeps
SchedRelease ==
    /\ schedPc = "loop"
    /\ ~ HasFreeSlot(active_tasks) \/ FirstNonEmpty(task_queues) < 0
    /\ lock' = "free"
    /\ schedPc' = "check"
    /\ obs' = NoObs
    /\ UNCHANGED <<task_queues, active_tasks, running, stopPc, available_devices, discoveryVars, agentVars, detailVars>>

\* mutant: a task the backend did not start is put back at the end of its
\* queue
SchedExecuteRequeue ==
    /\ schedPc = "loop"
    /\ HasFreeSlot(active_tasks)
    /\ FirstNonEmpty(task_queues) >= 0
    /\ LET priority == FirstNonEmpty(task_queues)
           task == task_queues[priority + 1][1]
       IN  \E available \in AvailableLevels, started \in BOOLEAN :
             /\ can_execute_task(task, Resources(available))
             /\ task_queues' =
                  IF started THEN PopQueue(task_queues, priority)
                  ELSE [task_queues EXCEPT ![priority + 1] = Append(Tail(@), task)]
             /\ active_tasks' = IF started THEN Activate(active_tasks, task)
                                ELSE active_tasks
             /\ obs' = [Obs("execute", priority, started)
                          EXCEPT !.can_execute = TRUE, !.available = available]
    /\ UNCHANGED <<running, lock, schedPc, stopPc, available_devices, discoveryVars, agentVars, detailVars>>

\* _scheduler_loop: one iteration of the inner while whose head task the
\* device can execute; started is what device_adapter.execute_task returns
SchedExecute ==
    /\ schedPc = "loop"
    /\ HasFreeSlot(active_tasks)
    /\ FirstNonEmpty(task_queues) >= 0
    /\ LET priority == FirstNonEmpty(task_queues)
           task == task_queues[priority + 1][1]
       IN  \E available \in AvailableLevels, started \in BOOLEAN :
             /\ can_execute_task(task, Resources(available))
             /\ task_queues' = PopQueue(task_queues, priority)
             /\ active_tasks' = IF started THEN Activate(active_tasks, task)
                                ELSE active_tasks
             /\ obs' = [Obs("execute", priority, started)
                          EXCEPT !.can_execute = TRUE, !.available = available]
    /\ UNCHANGED <<running, lock, schedPc, stopPc, available_devices, discoveryVars, agentVars, detailVars>>

\* mutant: the "break" after _try_migrate_task is missing, the inner while
\* goes on
SchedMigrateContinues ==
    /\ schedPc = "loop"
    /\ HasFreeSlot(active_tasks)
    /\ FirstNonEmpty(task_queues) >= 0
    /\ LET priority == FirstNonEmpty(task_queues)
           task == task_queues[priority + 1][1]
       IN  \E available \in AvailableLevels, sendOk \in [DeviceIds -> BOOLEAN] :
             LET sends == MigrationSends(available_devices, 1, task, priority, sendOk)
             IN  /\ ~ can_execute_task(task, Resources(available))
                 /\ task_queues' = IF Migrated(sends)
                                   THEN PopQueue(task_queues, priority)
                                   ELSE task_queues
                 /\ obs' = [Obs("migrate", priority, Migrated(sends))
                              EXCEPT !.sends = sends, !.available = available]
    /\ UNCHANGED <<active_tasks, running, lock, schedPc, stopPc, available_devices, discoveryVars, agentVars, detailVars>>

\* _scheduler_loop: the iteration whose head task the device cannot execute:
\* _try_migrate_task, then break, release the lock and sleep
SchedMigrate ==
    /\ schedPc = "loop"
    /\ HasFreeSlot(active_tasks)
    /\ FirstNonEmpty(task_queues) >= 0
    /\ LET priority == FirstNonEmpty(task_queues)
           task == task_queues[priority + 1][1]
       IN  \E available \in AvailableLevels, sendOk \in [DeviceIds -> BOOLEAN] :
             LET sends == MigrationSends(available_devices, 1, task, priority, sendOk)
             IN  /\ ~ can_execute_task(task, Resources(available))
                 /\ task_queues' = IF Migrated(sends)
                                   THEN PopQueue(task_queues, priority)
                                   ELSE task_queues
                 /\ obs' = [Obs("migrate", priority, Migrated(sends))
                              EXCEPT !.sends = sends, !.available = available]
    /\ lock' = "free"
    /\ schedPc' = "check"
    /\ UNCHANGED <<active_tasks, running, stopPc, available_devices, discoveryVars, agentVars, detailVars>>

\* TaskManager.stop: "self.running = False"
StopBegin ==
    /\ stopPc = "idle"
    /\ running' = FALSE
    /\ stopPc' = "join"
    /\ obs' = NoObs
    /\ UNCHANGED <<task_queues, active_tasks, lock, schedPc, available_devices, discoveryVars, agentVars, detailVars>>

\* TaskManager.stop: scheduler_thread.join(timeout=2.0) has returned (the
\* thread ended or the timeout passed), "with self.lock" is entered, the
\* loop "for task_id in list(self.active_tasks.keys())" finds no key, the
\* lock is released and stop returns True
StopReturn ==
    /\ stopPc = "join"
    /\ lock = "free"
    /\ DOMAIN active_tasks = {}
    /\ stopPc' = "done"
    /\ obs' = Obs("stop", 0, TRUE)
    /\ UNCHANGED <<task_queues, active_tasks, running, lock, schedPc, available_devices, discoveryVars, agentVars, detailVars>>

\* TaskManager.stop: as StopReturn, but the loop finds a key and calls
\* self.stop_task(task_id), whose "with self.lock" waits for the lock this
\* very thread holds (threading.Lock is not reentrant): the thread stays in
\* stop_task and the lock stays taken
StopCallsStopTask ==
    /\ stopPc = "join"
    /\ lock = "free"
    /\ DOMAIN active_tasks # {}
    /\ lock' = "stop"
    /\ stopPc' = "in_stop_task"
    /\ obs' = NoObs
    /\ UNCHANGED <<task_queues, active_tasks, running, schedPc, available_devices, discoveryVars, agentVars, detailVars>>

\* CommunicationLayer._discovery_loop as the scheduler sees it: the table
\* that get_available_devices returns is replaced,
\* "self.available_devices = discovered_devices" (the cycle in full is
\* DiscoveryLoopCycle)
DiscoveryCycle ==
    /\ available_devices' \in Directories
    /\ available_devices' # available_devices
    /\ obs' = NoObs
    /\ UNCHANGED <<task_queues, active_tasks, running, lock, schedPc, stopPc, discoveryVars, agentVars, detailVars>>

----------------------------------------------------------------------------
(* Device discovery: CommunicationLayer._discovery_loop *)

\* the attributes an AgentCore object has that other components call
OrchestratorMethods == {"start", "stop", "handle_received_data"}

\* self.agent_core.<method>(...): the attribute lookup raises AttributeError
\* when AgentCore defines no such method
CallRaises(method) == method \notin OrchestratorMethods

\* device_info after "device_info['protocol'] = protocol" and
\* "device_info['last_seen'] = time.time()"
Stamp(id, protocol, t) ==
    [id |-> id, capabilities |-> DeviceInfo(id).capabilities,
     protocol |-> protocol, last_seen |-> t]

\* discovered_devices[device_id] = device_info: a key already present keeps
\* its place in the dict order and gets the new value
Put(discovered, rec) ==
    IF \E i \in DOMAIN discovered : discovered[i].id = rec.id
    THEN [i \in DOMAIN discovered |->
             IF discovered[i].id = rec.id THEN rec ELSE discovered[i]]
    ELSE Append(discovered, rec)

\* the status the merge leaves for a discovered device (lines 146-149)
NextStatus(status, id) ==
    IF id \notin DOMAIN status THEN "new"
    ELSE IF status[id] = "disconnected" THEN "reconnected"
    ELSE status[id]

\* self.device_status[device_id] = value
SetStatus(status, id, value) ==
    [i \in DOMAIN status \cup {id} |-> IF i = id THEN value ELSE status[i]]

\* "for device_id, device_info in protocol_devices.items()" from position i
\* on; m holds discovered_devices, device_status and the notifications
\* delivered so far.  A raising notification leaves the loop through the
\* "except" of this protocol.
RECURSIVE MergeDevices(_, _, _, _, _)
MergeDevices(m, devices, i, protocol, t) ==
    IF i > Len(devices) THEN m
    ELSE LET id == devices[i]
             status == SetStatus(m.status, id, NextStatus(m.status, id))
             m1 == [m EXCEPT !.discovered = Put(@, Stamp(id, protocol, t)),
                             !.status = status]
         IN  IF CallRaises("handle_device_status_change")
             THEN m1
             ELSE MergeDevices([m1 EXCEPT !.notified = Append(@, <<id, status[id]>>)],
                               devices, i + 1, protocol, t)

\* "for protocol, handler in self.protocol_handlers.items()" from position k
\* on; returned[k] is the time at which handler k's discover_devices returned
RECURSIVE MergeProtocols(_, _, _, _)
MergeProtocols(m, k, reports, returned) ==
    IF k > Len(Protocols) THEN m
    ELSE MergeProtocols(
             IF reports[k].raised THEN m
             ELSE MergeDevices(m, reports[k].devices, 1, Protocols[k], returned[k]),
             k + 1, reports, returned)

\* current_time - device_info['last_seen'] > self.discovery_interval * 2
Stale(device_info, current_time) ==
    current_time - device_info.last_seen > discovery_interval * 2

\* the sweep "for device_id, device_info in list(self.available_devices.items())"
\* from position i on.  A raising notification ends the sweep through the
\* outer "except".
RECURSIVE Sweep(_, _, _, _)
Sweep(m, table, i, current_time) ==
    IF i > Len(table) THEN m
    ELSE IF Stale(table[i], current_time)
         THEN LET m1 == [m EXCEPT !.status = SetStatus(@, table[i].id, "disconnected")]
              IN  IF CallRaises("handle_device_status_change")
                  THEN m1
                  ELSE Sweep([m1 EXCEPT !.notified =
                                  Append(@, <<table[i].id, "disconnected">>)],
                             table, i + 1, current_time)
         ELSE Sweep(m, table, i + 1, current_time)

\* the time at which handler k's discover_devices returns, the cycle having
\* started at t
RECURSIVE ReturnTime(_, _, _)
ReturnTime(t, durations, k) ==
    IF k = 0 THEN t ELSE ReturnTime(t, durations, k - 1) + durations[k]

\* last_reported after this cycle's reports
Reported(seen, reports, returned) ==
    LET ids == UNION {Range(reports[k].devices) : k \in DOMAIN reports}
        latest(id) == CHOOSE k \in DOMAIN reports :
                         /\ id \in Range(reports[k].devices)
                         /\ \A j \in DOMAIN reports :
                               id \in Range(reports[j].devices) => j <= k
    IN  [id \in DOMAIN seen \cup ids |->
            IF id \in ids THEN returned[latest(id)] ELSE seen[id]]

\* One iteration of "while self.running" in _discovery_loop: every
\* handler's discovery, the merge, the replacement of the table, the
\* staleness sweep and the sleep
DiscoveryLoopCycle ==
    \E reports \in [DOMAIN Protocols -> Reports],
       durations \in [DOMAIN Protocols -> DiscoverDurations] :
        LET returned == [k \in DOMAIN Protocols |-> ReturnTime(now, durations, k)]
            current_time == returned[Len(Protocols)]
            merged == MergeProtocols(
                          [discovered |-> <<>>, status |-> device_status, notified |-> <<>>],
                          1, reports, returned)
            swept == Sweep(merged, merged.discovered, 1, current_time)
        IN  /\ now <= MaxTime
            /\ available_devices' = merged.discovered
            /\ device_status' = swept.status
            /\ now' = current_time + discovery_interval
            /\ last_reported' = Reported(last_reported, reports, returned)
            /\ cycle' = CycleObs("cycle", reports, returned, current_time,
                                 merged.status, swept.notified, FALSE)
            /\ UNCHANGED <<task_queues, active_tasks, running, lock, schedPc, stopPc, obs,
                           agentVars, detailVars>>

\* CommunicationLayer.handle_device_disconnection(device_id)
HandleDeviceDisconnection ==
    \E id \in DeviceIds :
        /\ IF \E i \in DOMAIN available_devices : available_devices[i].id = id
           THEN /\ device_status' = SetStatus(device_status, id, "disconnected")
                /\ cycle' = CycleObs("disconnection", <<>>, <<>>, now, NoStatus,
                       IF CallRaises("handle_device_status_change")
                       THEN <<>> ELSE <<<<id, "disconnected">>>>,
                       CallRaises("handle_device_status_change"))
           ELSE /\ device_status' = device_status
                /\ cycle' = CycleObs("disconnection", <<>>, <<>>, now, NoStatus, <<>>, FALSE)
        /\ UNCHANGED <<task_queues, active_tasks, running, lock, schedPc, stopPc, obs,
                       available_devices, now, last_reported, agentVars, detailVars>>

NextDiscovery ==
    \/ DiscoveryLoopCycle
    \/ HandleDeviceDisconnection

\* the discovery loop and the calls into it, the scheduler left alone
SpecDiscovery == Init /\ [][NextDiscovery]_vars

----------------------------------------------------------------------------
(* Security: utils/security.py SecurityManager *)

\* the keys agents can hold
Keys == {"k1", "k2"}

\* self.encryption_key of this agent
encryption_key == "k1"

\* the values time.time() can return
Times == 0..1

\* the methods class SecurityManager defines
SecurityMethods ==
    {"generate_token", "verify_token", "encrypt", "decrypt",
     "hash_password", "verify_password"}

\* self.security.<method>(...): AttributeError when SecurityManager defines
\* no such method
SecurityCallRaises(method) == method \notin SecurityMethods

\* hmac.new(key, message, hashlib.sha256).hexdigest(): two digests are
\* equal exactly when key and message are
Hmac(key, message) == [key |-> key, message |-> message]

\* data.get('id', '')
DataId(data) == IF "id" \in DOMAIN data THEN data.id ELSE ""

\* generate_token as the holder of key computes it at clock reading t:
\* message = f"{data.get('id', '')}:{time.time()}"
Sign(key, data, t) == Hmac(key, <<DataId(data), t>>)

\* SecurityManager.generate_token of this agent at clock reading t
generate_token(data, t) == Sign(encryption_key, data, t)

\* SecurityManager.verify_token at clock reading t:
\* hmac.compare_digest(token, self.generate_token(data))
verify_token(token, data, t) == token = generate_token(data, t)

\* the initialisation vectors Fernet can draw
Ivs == {"iv1", "iv2"}

\* what decrypt raises
InvalidToken == "InvalidToken"

\* the outcome of a call that returns value, or raises exception
Returns(value) == [raised |-> FALSE, value |-> value]

Raises(exception) == [raised |-> TRUE, value |-> exception]

\* Fernet(key).encrypt(data): the token carries the IV, the ciphertext of
\* data under the key and IV, and an HMAC over both under the key
FernetEncrypt(key, data, iv) ==
    LET body == [key |-> key, iv |-> iv, plain |-> data]
    IN  [iv |-> iv, body |-> body, mac |-> Hmac(key, <<iv, body>>)]

\* mutant: the ciphertext decrypted without checking the HMAC
FernetDecryptUnchecked(key, token) == Returns(token.body.plain)

\* Fernet(key).decrypt(token): InvalidToken unless the HMAC verifies under
\* the key, then the plaintext
FernetDecrypt(key, token) ==
    IF token.mac = Hmac(key, <<token.iv, token.body>>) /\ token.body.key = key
    THEN Returns(token.body.plain)
    ELSE Raises(InvalidToken)

\* SecurityManager.encrypt
encrypt(data, iv) == FernetEncrypt(encryption_key, data, iv)

\* SecurityManager.decrypt
decrypt(encrypted_data) == FernetDecrypt(encryption_key, encrypted_data)

----------------------------------------------------------------------------
(* Messaging: CommunicationLayer.send_data / broadcast_data / receive_data, *)
(* WifiProtocolHandler.handle_message, AgentCore.handle_received_data       *)

\* the protocol argument of send_data / broadcast_data; "none" is None
ProtocolArgs == {"none", "wifi", "bluetooth", "zigbee"}

\* the value of calling "async def f" without await: a coroutine object,
\* whose body has not run
Coroutine == [kind |-> "coroutine"]

\* Python truthiness of a call's value: a coroutine object is truthy
Truthy(v) == IF v.kind = "coroutine" THEN TRUE ELSE v.value

\* handler.send_data(target_id, data) as CommunicationLayer calls it, for
\* both transports: "async def send_data" called without await
HandlerSendData(protocol, target_id, data) == Coroutine

\* handler.broadcast_data(data) as CommunicationLayer calls it
HandlerBroadcastData(protocol, data) == Coroutine

\* what a handler call put on the wire: the body of a coroutine that is
\* never awaited does not run, so nothing
Transmitted(protocol, v, data) ==
    IF v.kind = "coroutine" THEN <<>> ELSE <<[protocol |-> protocol, data |-> data]>>

\* the plaintext messages peers send
RemoteTask == Task("t2", <<"camera">>, 0)

Announcement(sender_id) ==
    [type |-> "announcement", sender_id |-> sender_id, device_type |-> "mobile",
     capabilities |-> Dict({"camera", "gpu"}, {"gpu"})]

Messages ==
    {[type |-> "task", task |-> RemoteTask, priority |-> p] : p \in PriorityInputs}
        \cup {[type |-> "task", task |-> RemoteTask]}
        \cup {[type |-> "task"]}
        \cup {Announcement(d) : d \in DeviceIds}
        \cup {[type |-> "heartbeat"]}

\* the loop of send_data over self.protocol_handlers.values(), from handler k
RECURSIVE SendLoop(_, _, _)
SendLoop(k, target_id, data) ==
    IF k > Len(Protocols) THEN [result |-> FALSE, calls |-> <<>>, wire |-> <<>>]
    ELSE LET v == HandlerSendData(Protocols[k], target_id, data)
         IN  IF Truthy(v)
             THEN [result |-> TRUE, calls |-> <<Protocols[k]>>,
                   wire |-> Transmitted(Protocols[k], v, data)]
             ELSE LET rest == SendLoop(k + 1, target_id, data)
                  IN  [result |-> rest.result, calls |-> <<Protocols[k]>> \o rest.calls,
                       wire |-> rest.wire]

\* CommunicationLayer.send_data: its value as the caller's "if" reads it,
\* the handlers invoked, what was transmitted
SendDataResult(target_id, data, protocol) ==
    IF protocol # "none"
    THEN IF protocol \notin Range(Protocols)
         THEN [result |-> FALSE, calls |-> <<>>, wire |-> <<>>]
         ELSE LET v == HandlerSendData(protocol, target_id, data)
              IN  [result |-> Truthy(v), calls |-> <<protocol>>,
                   wire |-> Transmitted(protocol, v, data)]
    ELSE SendLoop(1, target_id, data)

\* the loop of broadcast_data over self.protocol_handlers.values(), from
\* handler k: every handler is called
RECURSIVE BroadcastLoop(_, _)
BroadcastLoop(k, data) ==
    IF k > Len(Protocols) THEN [result |-> FALSE, calls |-> <<>>, wire |-> <<>>]
    ELSE LET v == HandlerBroadcastData(Protocols[k], data)
             rest == BroadcastLoop(k + 1, data)
         IN  [result |-> Truthy(v) \/ rest.result,
              calls |-> <<Protocols[k]>> \o rest.calls,
              wire |-> Transmitted(Protocols[k], v, data) \o rest.wire]

\* CommunicationLayer.broadcast_data
BroadcastDataResult(data, protocol) ==
    IF protocol # "none"
    THEN IF protocol \notin Range(Protocols)
         THEN [result |-> FALSE, calls |-> <<>>, wire |-> <<>>]
         ELSE LET v == HandlerBroadcastData(protocol, data)
              IN  [result |-> Truthy(v), calls |-> <<protocol>>,
                   wire |-> Transmitted(protocol, v, data)]
    ELSE BroadcastLoop(1, data)

SendData ==
    \E target_id \in DeviceIds, data \in Messages, protocol \in ProtocolArgs :
        LET r == SendDataResult(target_id, data, protocol)
        IN  /\ msg' = MsgObs("send_data", r.result, r.calls, r.wire,
                             [target_id |-> target_id, data |-> data, protocol |-> protocol])
            /\ UNCHANGED <<task_queues, active_tasks, running, lock, schedPc, stopPc,
                           available_devices, obs, discoveryVars,
                           agent_running, comm_running, handler_running, agentPc, detailVars>>

BroadcastData ==
    \E data \in Messages, protocol \in ProtocolArgs :
        LET r == BroadcastDataResult(data, protocol)
        IN  /\ msg' = MsgObs("broadcast_data", r.result, r.calls, r.wire,
                             [data |-> data, protocol |-> protocol])
            /\ UNCHANGED <<task_queues, active_tasks, running, lock, schedPc, stopPc,
                           available_devices, obs, discoveryVars,
                           agent_running, comm_running, handler_running, agentPc, detailVars>>

\* json.dumps(message).encode(): the bytes a peer encrypts; bytes are not a
\* dict (no .get)
Encode(message) == [bytes |-> message]

IsDict(data) == "bytes" \notin DOMAIN data

\* the envelope a holder of key builds at clock reading t_sign: the payload
\* encrypted under the key, the envelope signed with generate_token
Envelope(key, id, message, iv, t_sign) ==
    LET unsigned == [id |-> id, data |-> FernetEncrypt(key, Encode(message), iv)]
    IN  [id |-> id, data |-> unsigned.data, signature |-> Sign(key, unsigned, t_sign)]

\* what LLMIntegration.analyze_task returns: None, or the analysis dict
Analysis(caps) ==
    [required_capabilities |-> caps, resource_requirements |-> <<>>,
     priority_level |-> 3, challenges |-> <<>>]

AnalysisResults ==
    {[none |-> TRUE, analysis |-> Analysis(<<>>)]}
        \cup {[none |-> FALSE, analysis |-> Analysis(<<"display">>)]}

\* dict.update
DictUpdate(d, u) ==
    [k \in DOMAIN d \cup DOMAIN u |-> IF k \in DOMAIN u THEN u[k] ELSE d[k]]

\* TaskManager.add_task as a function of the queues: its result and the
\* queues it leaves
AddTaskResult(queues, task, priority) ==
    IF ValidPriority(priority) /\ ListIndex(priority_levels, priority) # 0
    THEN [result |-> TRUE,
          queues |-> [queues EXCEPT ![ListIndex(priority_levels, priority)] = Append(@, task)]]
    ELSE [result |-> FALSE, queues |-> queues]

\* mutant: the offer is always added with add_task's default priority
HandleReceivedDataTopPriority(queues, sender_id, data, llm) ==
    IF ~IsDict(data) THEN [result |-> FALSE, queues |-> queues]
    ELSE IF data.type = "task"
    THEN IF "task" \notin DOMAIN data THEN [result |-> FALSE, queues |-> queues]
         ELSE AddTaskResult(queues,
                            IF llm.none THEN data.task ELSE DictUpdate(data.task, llm.analysis),
                            0)
    ELSE [result |-> TRUE, queues |-> queues]

\* AgentCore.handle_received_data: its result and the queues it leaves.
\* data.get raises on bytes, data['task'] on a missing key; both are caught
HandleReceivedData(queues, sender_id, data, llm) ==
    IF ~IsDict(data) THEN [result |-> FALSE, queues |-> queues]
    ELSE IF data.type = "task"
    THEN IF "task" \notin DOMAIN data THEN [result |-> FALSE, queues |-> queues]
         ELSE AddTaskResult(queues,
                            IF llm.none THEN data.task ELSE DictUpdate(data.task, llm.analysis),
                            IF "priority" \in DOMAIN data THEN data.priority ELSE 0)
    ELSE [result |-> TRUE, queues |-> queues]

\* receive_data after the signature check: self.security.decrypt_data, then
\* handle_received_data on what it returned; any exception gives False
AfterVerification(queues, sender_id, data, llm) ==
    IF SecurityCallRaises("decrypt_data")
    THEN [result |-> FALSE, calls |-> <<"verify_token", "decrypt_data">>, queues |-> queues]
    ELSE LET decrypted_data == decrypt(data.data)
         IN  IF decrypted_data.raised
             THEN [result |-> FALSE, calls |-> <<"verify_token", "decrypt_data">>,
                   queues |-> queues]
             ELSE LET h == HandleReceivedData(queues, sender_id, decrypted_data.value, llm)
                  IN  [result |-> h.result,
                       calls |-> <<"verify_token", "decrypt_data", "handle_received_data">>,
                       queues |-> h.queues]

\* mutant: receive_data that goes on whatever verify_token returned
ReceiveDataUnverified(queues, sender_id, data, t, llm) ==
    IF "signature" \notin DOMAIN data
    THEN [result |-> FALSE, calls |-> <<>>, queues |-> queues]
    ELSE AfterVerification(queues, sender_id, data, llm)

\* CommunicationLayer.receive_data at clock reading t: its result, the calls
\* it made, the queues it leaves. data['signature'] raises KeyError on an
\* envelope without the field
ReceiveDataResult(queues, sender_id, data, t, llm) ==
    IF "signature" \notin DOMAIN data
    THEN [result |-> FALSE, calls |-> <<>>, queues |-> queues]
    ELSE IF ~verify_token(data.signature, data, t)
    THEN [result |-> FALSE, calls |-> <<"verify_token">>, queues |-> queues]
    ELSE AfterVerification(queues, sender_id, data, llm)

\* the most tasks peers' messages may leave queued
MaxReceived == 1

\* the messages that arrive in envelopes
EnvelopeMessages ==
    {[type |-> "task", task |-> RemoteTask, priority |-> 0], Announcement("D1")}

\* the envelopes that arrive: built by a key holder, or with the signature
\* field missing
Envelopes ==
    {Envelope(key, id, message, iv, t_sign) :
        key \in Keys, id \in {"", "m1"}, message \in EnvelopeMessages, iv \in {"iv1"},
        t_sign \in Times}
        \cup {[data |-> FernetEncrypt(encryption_key, Encode([type |-> "heartbeat"]), "iv1")]}

ReceiveData ==
    \E sender_id \in DeviceIds, data \in Envelopes, t \in Times, llm \in AnalysisResults :
        LET r == ReceiveDataResult(task_queues, sender_id, data, t, llm)
        IN  /\ lock = "free"
            /\ TotalLen(r.queues, Len(r.queues)) <= MaxReceived
            /\ task_queues' = r.queues
            /\ msg' = MsgObs("receive_data", r.result, r.calls, <<>>,
                             [sender_id |-> sender_id, data |-> data, t |-> t])
            /\ UNCHANGED <<active_tasks, running, lock, schedPc, stopPc,
                           available_devices, obs, discoveryVars,
                           agent_running, comm_running, handler_running, agentPc, detailVars>>

\* WifiProtocolHandler.handle_message with a message json.loads accepts: a
\* heartbeat is answered through the awaited self.send_data (sent says whether
\* the socket took it); any other message goes to handle_received_data, whose
\* bool result "await" then rejects with a TypeError that is caught
HandleMessage ==
    \E client_id \in DeviceIds, data \in Messages, sent \in BOOLEAN,
       llm \in AnalysisResults :
        LET h == HandleReceivedData(task_queues, client_id, data, llm)
        IN  /\ lock = "free"
            /\ IF data.type = "heartbeat"
               THEN /\ msg' = MsgObs("handle_message", sent, <<>>,
                                     IF sent THEN <<[protocol |-> "wifi",
                                                     data |-> [type |-> "heartbeat_ack"]]>>
                                             ELSE <<>>,
                                     [sender_id |-> client_id, data |-> data])
                    /\ UNCHANGED task_queues
               ELSE /\ TotalLen(h.queues, Len(h.queues)) <= MaxReceived
                    /\ task_queues' = h.queues
                    /\ msg' = MsgObs("handle_message", h.result, <<"handle_received_data">>,
                                     <<>>, [sender_id |-> client_id, data |-> data])
            /\ UNCHANGED <<active_tasks, running, lock, schedPc, stopPc,
                           available_devices, obs, discoveryVars,
                           agent_running, comm_running, handler_running, agentPc, detailVars>>

\* a hex digest with one bit flipped
Flip(token, bit) == [key |-> token.key, message |-> token.message, flipped |-> bit]

\* the bit positions tried; 0 is "no bit flipped"
Bits == 0..2

\* the data objects signed: with and without an 'id'
TokenData == {[id |-> "m1", type |-> "task"], [type |-> "task"]}

\* generate_token(data) at clock reading t_sign, then verify_token at clock
\* reading t of the token, or of the token with one bit flipped
VerifyToken ==
    \E data \in TokenData, t_sign \in Times, t \in Times, bit \in Bits :
        LET token == generate_token(data, t_sign)
            presented == IF bit = 0 THEN token ELSE Flip(token, bit)
        IN  /\ t >= t_sign
            /\ msg' = MsgObs("verify_token", verify_token(presented, data, t), <<>>, <<>>,
                             [data |-> data, bit |-> bit, t_sign |-> t_sign, t |-> t])
            /\ UNCHANGED <<task_queues, active_tasks, running, lock, schedPc, stopPc,
                           available_devices, obs, discoveryVars,
                           agent_running, comm_running, handler_running, agentPc, detailVars>>

\* the byte payloads encrypted
Payloads == {Encode(""), Encode("a"), Encode("b")}

\* what happens to a Fernet token on its way
Corruptions == {"none", "iv", "ciphertext", "mac"}

Corrupt(token, corruption) ==
    CASE corruption = "none" -> token
      [] corruption = "iv" ->
            [token EXCEPT !.iv = CHOOSE iv \in Ivs : iv # token.iv]
      [] corruption = "ciphertext" ->
            [token EXCEPT !.body.plain = CHOOSE x \in Payloads : x # token.body.plain]
      [] corruption = "mac" -> [token EXCEPT !.mac = Flip(token.mac, 1)]

\* Fernet(key).encrypt(x), then SecurityManager.decrypt of the token as it
\* arrives
DecryptToken ==
    \E x \in Payloads, key \in Keys, iv \in Ivs, corruption \in Corruptions :
        LET presented == Corrupt(FernetEncrypt(key, x, iv), corruption)
        IN  /\ msg' = MsgObs("decrypt", decrypt(presented), <<>>, <<>>,
                             [x |-> x, key |-> key, iv |-> iv, corruption |-> corruption])
            /\ UNCHANGED <<task_queues, active_tasks, running, lock, schedPc, stopPc,
                           available_devices, obs, discoveryVars,
                           agent_running, comm_running, handler_running, agentPc, detailVars>>

\* max_retries of WifiProtocolHandler.send_data and of
\* BluetoothProtocolHandler.connect_device
max_retries == 3

\* what one awaited websocket.send / client.connect can do
SendOutcomes == {"done", "closed", "error"}

\* the attempts an input describes, one more than the code allows
Attempts == 1..(max_retries + 1)

\* mutant: "while True" in place of "for attempt in range(max_retries)" and
\* no "if attempt < max_retries - 1"
RECURSIVE WifiSendLoopUnbounded(_, _, _)
WifiSendLoopUnbounded(attempt, outcome, reconnects) ==
    IF attempt \notin DOMAIN outcome
    THEN [result |-> FALSE, attempts |-> attempt - 1, raised |-> FALSE]
    ELSE IF outcome[attempt] = "done"
    THEN [result |-> TRUE, attempts |-> attempt, raised |-> FALSE]
    ELSE IF outcome[attempt] = "closed" /\ attempt <= reconnects
    THEN WifiSendLoopUnbounded(attempt + 1, outcome, reconnects)
    ELSE [result |-> FALSE, attempts |-> attempt, raised |-> FALSE]

\* the body of "for attempt in range(max_retries)" of the awaited
\* WifiProtocolHandler.send_data from attempt on (attempt counts from 1):
\* outcome[n] is what the n-th websocket.send does; connect_device returns
\* True for the first reconnects calls
RECURSIVE WifiSendLoop(_, _, _)
WifiSendLoop(attempt, outcome, reconnects) ==
    IF attempt > max_retries
    THEN [result |-> FALSE, attempts |-> max_retries, raised |-> FALSE]
    ELSE IF outcome[attempt] = "done"
    THEN [result |-> TRUE, attempts |-> attempt, raised |-> FALSE]
    ELSE IF outcome[attempt] = "closed" /\ attempt < max_retries /\ attempt <= reconnects
    THEN WifiSendLoop(attempt + 1, outcome, reconnects)
    ELSE [result |-> FALSE, attempts |-> attempt, raised |-> FALSE]

\* the awaited WifiProtocolHandler.send_data: False at once for a device
\* that is not in self.clients
WifiSendData(in_clients, outcome, reconnects) ==
    IF ~in_clients THEN [result |-> FALSE, attempts |-> 0, raised |-> FALSE]
    ELSE WifiSendLoop(1, outcome, reconnects)

\* the retry loop of the awaited BluetoothProtocolHandler.connect_device from
\* attempt on: the last failure is raised again
RECURSIVE BluetoothConnectLoop(_, _)
BluetoothConnectLoop(attempt, outcome) ==
    IF attempt > max_retries
    THEN [result |-> FALSE, attempts |-> max_retries, raised |-> FALSE]
    ELSE IF outcome[attempt] = "done"
    THEN [result |-> TRUE, attempts |-> attempt, raised |-> FALSE]
    ELSE IF attempt < max_retries
    THEN BluetoothConnectLoop(attempt + 1, outcome)
    ELSE [result |-> FALSE, attempts |-> attempt, raised |-> TRUE]

\* the awaited BluetoothProtocolHandler.send_data: one write_gatt_char to a
\* connected device, every exception turned into False
BluetoothSendData(connected, outcome) ==
    IF ~connected THEN [result |-> FALSE, attempts |-> 0, raised |-> FALSE]
    ELSE [result |-> outcome[1] = "done", attempts |-> 1, raised |-> FALSE]

\* what a transport call did
TransportObs(call, r, in_clients, outcome, reconnects) ==
    MsgObs(call, r.result, <<>>, <<>>,
           [in_clients |-> in_clients, outcome |-> outcome, reconnects |-> reconnects,
            attempts |-> r.attempts, raised |-> r.raised])

\* await WifiProtocolHandler.send_data(device_id, data)
WifiSend ==
    \E in_clients \in BOOLEAN, outcome \in [Attempts -> SendOutcomes],
       reconnects \in 0..max_retries :
        /\ msg' = TransportObs("wifi.send_data", WifiSendData(in_clients, outcome, reconnects),
                               in_clients, outcome, reconnects)
        /\ UNCHANGED <<task_queues, active_tasks, running, lock, schedPc, stopPc,
                       available_devices, obs, discoveryVars,
                       agent_running, comm_running, handler_running, agentPc, detailVars>>

\* await BluetoothProtocolHandler.send_data(device_address, data)
BluetoothSend ==
    \E connected \in BOOLEAN, outcome \in [Attempts -> SendOutcomes] :
        /\ msg' = TransportObs("bluetooth.send_data", BluetoothSendData(connected, outcome),
                               connected, outcome, 0)
        /\ UNCHANGED <<task_queues, active_tasks, running, lock, schedPc, stopPc,
                       available_devices, obs, discoveryVars,
                       agent_running, comm_running, handler_running, agentPc, detailVars>>

\* await BluetoothProtocolHandler.connect_device(address)
BluetoothConnect ==
    \E outcome \in [Attempts -> SendOutcomes] :
        /\ msg' = TransportObs("bluetooth.connect_device", BluetoothConnectLoop(1, outcome),
                               FALSE, outcome, 0)
        /\ UNCHANGED <<task_queues, active_tasks, running, lock, schedPc, stopPc,
                       available_devices, obs, discoveryVars,
                       agent_running, comm_running, handler_running, agentPc, detailVars>>

NextTransport ==
    \/ WifiSend
    \/ BluetoothSend
    \/ BluetoothConnect

SpecTransport == Init /\ [][NextTransport]_vars

NextComm ==
    \/ SendData
    \/ BroadcastData
    \/ ReceiveData
    \/ HandleMessage
    \/ VerifyToken
    \/ DecryptToken

SpecComm == Init /\ [][NextComm]_vars

----------------------------------------------------------------------------
(* Life cycle: AgentCore.start / stop, CommunicationLayer.start / stop *)

\* the most tasks submitted to a started agent
MaxAgentTasks == 1

\* the next handler "for protocol, handler in self.protocol_handlers.items()"
\* of CommunicationLayer.start reaches: the first one not started, 0 if none
RECURSIVE NextHandler(_, _)
NextHandler(flags, k) ==
    IF k > Len(Protocols) THEN 0
    ELSE IF ~flags[k] THEN k
    ELSE NextHandler(flags, k + 1)

\* "for handler in self.protocol_handlers.values(): if not handler.stop():
\* return False" from handler k: handler.stop clears its running flag first,
\* ok[k] says whether it then returns True
RECURSIVE StopHandlers(_, _, _)
StopHandlers(flags, ok, k) ==
    IF k > Len(Protocols) THEN [result |-> TRUE, flags |-> flags]
    ELSE IF ~ok[k] THEN [result |-> FALSE, flags |-> [flags EXCEPT ![k] = FALSE]]
    ELSE StopHandlers([flags EXCEPT ![k] = FALSE], ok, k + 1)

\* AgentCore.start: "self.running = True"
AgentStart ==
    /\ agentPc = "idle"
    /\ agent_running' = TRUE
    /\ agentPc' = "starting"
    /\ UNCHANGED <<task_queues, active_tasks, running, lock, schedPc, stopPc,
                   available_devices, obs, discoveryVars,
                   comm_running, handler_running, msg, detailVars>>

\* AgentCore.start: "self.task_manager.start()"
AgentStartsTaskManager ==
    /\ agentPc = "starting"
    /\ Start

\* AgentCore.start in CommunicationLayer.start: handler.start() of the next
\* handler, which sets its running flag and returns True, or False when the
\* event loop cannot be made (ok). After the last handler the discovery
\* thread is started, presence announced, and both start calls return True;
\* on a failure CommunicationLayer.start returns False at once
AgentStartsHandler ==
    /\ agentPc = "starting"
    /\ schedPc # "idle"
    /\ NextHandler(handler_running, 1) # 0
    /\ \E ok \in BOOLEAN :
         LET k == NextHandler(handler_running, 1)
         IN  /\ handler_running' = [handler_running EXCEPT ![k] = TRUE]
             /\ comm_running' = IF ok /\ k = Len(Protocols) THEN TRUE ELSE comm_running
             /\ agentPc' = IF ~ok THEN "start_failing"
                           ELSE IF k = Len(Protocols) THEN "started"
                           ELSE agentPc
    /\ UNCHANGED <<task_queues, active_tasks, running, lock, schedPc, stopPc,
                   available_devices, obs, discoveryVars, agent_running, msg, detailVars>>

\* AgentCore.start after CommunicationLayer.start returned False:
\* "self.task_manager.stop()" has returned, "return False"
AgentStartReturnsFalse ==
    /\ agentPc = "start_failing"
    /\ stopPc = "done"
    /\ agentPc' = "start_failed"
    /\ UNCHANGED <<task_queues, active_tasks, running, lock, schedPc, stopPc,
                   available_devices, obs, discoveryVars,
                   agent_running, comm_running, handler_running, msg, detailVars>>

\* AgentCore.stop: "self.running = False"
AgentStop ==
    /\ agentPc = "started"
    /\ agent_running' = FALSE
    /\ agentPc' = "stopping"
    /\ UNCHANGED <<task_queues, active_tasks, running, lock, schedPc, stopPc,
                   available_devices, obs, discoveryVars,
                   comm_running, handler_running, msg, detailVars>>

\* "self.task_manager.stop()" of AgentCore.start's failure path and of
\* AgentCore.stop: "self.running = False"
AgentStopsTaskManager ==
    /\ agentPc \in {"start_failing", "stopping"}
    /\ StopBegin

\* "self.task_manager.stop()": no task is active, stop returns True
AgentTaskManagerStopped ==
    /\ agentPc \in {"start_failing", "stopping"}
    /\ StopReturn

\* "self.task_manager.stop()": a task is active, stop calls stop_task
AgentTaskManagerStopsTask ==
    /\ agentPc \in {"start_failing", "stopping"}
    /\ StopCallsStopTask

\* AgentCore.stop after task_manager.stop() returned True:
\* "self.communication.stop()", which stops the handlers and returns;
\* self.running of the CommunicationLayer is not written
AgentStopsCommunication ==
    /\ agentPc = "stopping"
    /\ stopPc = "done"
    /\ \E ok \in [DOMAIN Protocols -> BOOLEAN] :
         LET r == StopHandlers(handler_running, ok, 1)
         IN  /\ handler_running' = r.flags
             /\ agentPc' = IF r.result THEN "stopped" ELSE "stop_failed"
    /\ UNCHANGED <<task_queues, active_tasks, running, lock, schedPc, stopPc,
                   available_devices, obs, discoveryVars,
                   agent_running, comm_running, msg, detailVars>>

\* one iteration of "while self.running" of the discovery thread
AgentDiscoveryCycle ==
    /\ comm_running
    /\ DiscoveryCycle

\* add_task on the started agent
AgentAddTask ==
    /\ agentPc = "started"
    /\ QueuedCount + Cardinality(DOMAIN active_tasks) < MaxAgentTasks
    /\ AddTaskAccepted

NextAgent ==
    \/ AgentStart
    \/ AgentStartsTaskManager
    \/ AgentStartsHandler
    \/ AgentStartReturnsFalse
    \/ AgentStop
    \/ AgentStopsTaskManager
    \/ AgentTaskManagerStopped
    \/ AgentTaskManagerStopsTask
    \/ AgentStopsCommunication
    \/ AgentDiscoveryCycle
    \/ AgentAddTask
    \/ SchedCheck
    \/ SchedAcquire
    \/ SchedRelease
    \/ SchedExecute
    \/ SchedMigrate

SpecAgent == Init /\ [][NextAgent]_vars

Next ==
    \/ Start
    \/ AddTaskRejected
    \/ AddTaskAccepted
    \/ StopTask
    \/ SchedCheck
    \/ SchedAcquire
    \/ SchedRelease
    \/ SchedExecute
    \/ SchedMigrate
    \/ StopBegin
    \/ StopReturn
    \/ StopCallsStopTask
    \/ DiscoveryCycle

Spec == Init /\ [][Next]_vars

----------------------------------------------------------------------------
(* Properties *)

QueueIndexes == 1..priority_levels

\* the scheduler step just taken considered the head of a queue
SchedulerTookHead == obs'.op \in {"execute", "migrate"}

\* C1: in every reachable state the Active Task Table holds at most
\* max_concurrent entries.
C1_ActiveBounded == Cardinality(DOMAIN active_tasks) <= max_concurrent

\* the table is full while the scheduler holds the lock with tasks waiting
C1_Witness ==
    /\ Cardinality(DOMAIN active_tasks) = max_concurrent
    /\ schedPc = "loop"
    /\ QueuedCount > 0

\* C2: an add_task call that returns has returned True exactly when
\* 0 <= priority < priority_levels; when True, the task was appended at the
\* tail of queue priority and nothing else changed; when False, no queue and
\* no entry of the Active Task Table changed.
C2_AddTaskPriority ==
    [][obs'.op = "add_task" =>
        LET p == obs'.priority
        IN  /\ obs'.result = (0 <= p /\ p < priority_levels)
            /\ obs'.result =>
                 /\ \E task \in Tasks :
                       task_queues' = [task_queues EXCEPT ![p + 1] = Append(@, task)]
                 /\ active_tasks' = active_tasks
            /\ ~ obs'.result =>
                 /\ task_queues' = task_queues
                 /\ active_tasks' = active_tasks]_vars

\* add_task returned True after appending behind a task already waiting
C2_Witness ==
    /\ obs.op = "add_task"
    /\ obs.result
    /\ Len(task_queues[obs.priority + 1]) = 2

\* C3: every change of a queue is an append at its tail or the removal of
\* its head, so of two tasks in one queue the one submitted later is never
\* removed before the one submitted earlier.
C3_FifoWithinLevel ==
    [][\A i \in QueueIndexes :
          \/ task_queues'[i] = task_queues[i]
          \/ \E task \in Tasks : task_queues'[i] = Append(task_queues[i], task)
          \/ /\ task_queues[i] # <<>>
             /\ task_queues'[i] = Tail(task_queues[i])]_vars

\* the scheduler removed the head of a queue and a task submitted after it
\* still waits in that queue
C3_Witness ==
    /\ obs.op \in {"execute", "migrate"}
    /\ obs.op = "migrate" => obs.result
    /\ task_queues[obs.priority + 1] # <<>>

\* C4: when a scheduler step takes the head of queue p, to execute it or to
\* try its migration, every queue of a lower index is empty, the task it
\* considers is the head of queue p, only queue p can shrink, and no entry
\* leaves the Active Task Table.
C4_PriorityFirst ==
    [][SchedulerTookHead =>
        LET p == obs'.priority
        IN  /\ \A j \in QueueIndexes : j < p + 1 => task_queues[j] = <<>>
            /\ task_queues[p + 1] # <<>>
            /\ \A j \in QueueIndexes : j # p + 1 => task_queues'[j] = task_queues[j]
            /\ DOMAIN active_tasks \subseteq DOMAIN active_tasks'
            /\ \A id \in DOMAIN active_tasks :
                  active_tasks'[id] = active_tasks[id]
                     \/ id = task_queues[p + 1][1].id]_vars

\* a task of priority 0 was taken while a task of lower priority waits
C4_Witness ==
    /\ obs.op = "execute"
    /\ obs.priority = 0
    /\ task_queues[2] # <<>>

\* C5: stop() always returns: the thread inside stop() never waits for a
\* lock that it holds itself.
C5_StopReturns == ~ (stopPc = "in_stop_task" /\ lock = "stop")

\* the task a scheduler step considers: the head of the first non-empty queue
ConsideredTask == task_queues[obs'.priority + 1][1]

\* every required capability is truthy on this device and every required
\* resource is available in at least the required quantity
LocallyExecutable(task, cpu) ==
    /\ \A c \in Range(task.required_capabilities) :
          c \in DOMAIN capabilities /\ capabilities[c] = TRUE
    /\ task.required_resources["cpu_percent"] <= cpu

\* C6: a scheduler step issues no task-offer send for a head task that the
\* device can execute with the resources measured in that step; it pops and
\* executes it instead.
C6_NoMigrationWhenExecutable ==
    [][SchedulerTookHead /\ LocallyExecutable(ConsideredTask, obs'.available) =>
          /\ obs'.sends = <<>>
          /\ obs'.op = "execute"
          /\ task_queues'[obs'.priority + 1] = Tail(task_queues[obs'.priority + 1])]_vars

\* a task with required capabilities runs locally although a known peer
\* covers them too
C6_Witness ==
    /\ obs.op = "execute"
    /\ obs.result
    /\ \E id \in DOMAIN active_tasks, i \in DOMAIN available_devices :
          /\ active_tasks[id].required_capabilities # <<>>
          /\ Range(active_tasks[id].required_capabilities)
                \subseteq DOMAIN available_devices[i].capabilities

\* the Device Directory's record of a device
DeviceRecord(id) ==
    available_devices[CHOOSE i \in DOMAIN available_devices : available_devices[i].id = id]

\* the device's capability dict has every required capability name as a key
Covers(device_info, task) ==
    Range(task.required_capabilities) \subseteq DOMAIN device_info.capabilities

\* positions of the Device Directory whose device covers the task
CoveringPositions(task) ==
    {i \in DOMAIN available_devices : Covers(available_devices[i], task)}

C8_MigratedTaskLeaves ==
    [][obs'.op = "migrate" /\ obs'.result =>
        LET p == obs'.priority
            sent == obs'.sends[Len(obs'.sends)]
        IN  /\ sent.ok
            /\ sent.payload = [type |-> "task", task |-> ConsideredTask, priority |-> p]
            /\ task_queues' = [task_queues EXCEPT ![p + 1] = Tail(@)]
            /\ active_tasks' = active_tasks]_vars

\* a task of priority 1 was migrated while another task stays queued
C8_Witness ==
    /\ obs.op = "migrate"
    /\ obs.result
    /\ obs.priority = 1
    /\ QueuedCount > 0

\* the device's capability dict has every required capability with a truthy value
CoversTruthy(device_info, task) ==
    \A c \in Range(task.required_capabilities) :
        c \in DOMAIN device_info.capabilities /\ device_info.capabilities[c] = TRUE

C10_TruthyEligibility ==
    [][obs'.op = "migrate" =>
        \A k \in DOMAIN obs'.sends :
            CoversTruthy(DeviceRecord(obs'.sends[k].device), ConsideredTask)]_vars

\* a step of the scheduler thread inside "with self.lock": an iteration of
\* the inner while, or its end and the release of the lock
SchedulerStepInLock ==
    /\ schedPc = "loop"
    /\ obs'.op \in {"execute", "migrate"} \/ lock' = "free"

\* the queues in priority order that hold a task
NonEmptyQueues == {j \in QueueIndexes : task_queues[j] # <<>>}

\* C11: while the Active Task Table holds max_concurrent tasks, a scheduler
\* tick pops, executes and migrates nothing; when a slot is free and a task
\* waits, the tick takes the head of the highest-priority non-empty queue,
\* and when the device can execute it, pops it and, once the backend has
\* started it, enters it into the Active Task Table.
C11_FullTableBlocksTick ==
    [][SchedulerStepInLock =>
        /\ Cardinality(DOMAIN active_tasks) >= max_concurrent =>
              /\ obs'.op = "none"
              /\ obs'.sends = <<>>
              /\ task_queues' = task_queues
              /\ active_tasks' = active_tasks
        /\ Cardinality(DOMAIN active_tasks) < max_concurrent /\ NonEmptyQueues # {} =>
              LET j == CHOOSE k \in NonEmptyQueues : \A m \in NonEmptyQueues : k <= m
                  head == task_queues[j][1]
              IN  /\ obs'.op \in {"execute", "migrate"}
                  /\ obs'.priority = j - 1
                  /\ LocallyExecutable(head, obs'.available) =>
                        /\ obs'.op = "execute"
                        /\ task_queues' = [task_queues EXCEPT ![j] = Tail(@)]
                        /\ obs'.result =>
                              /\ DOMAIN active_tasks' = DOMAIN active_tasks \cup {head.id}
                              /\ active_tasks'[head.id] = head]_vars

\* the tick admitted the priority-0 task, the table is now full, and a task
\* the device can execute waits at priority 1 while the tick goes on
C11_Witness ==
    /\ obs.op = "execute"
    /\ obs.result
    /\ obs.priority = 0
    /\ schedPc = "loop"
    /\ Cardinality(DOMAIN active_tasks) = max_concurrent
    /\ task_queues[2] # <<>>
    /\ LocallyExecutable(task_queues[2][1], 2)

\* the task ids waiting in some queue
QueuedIds ==
    UNION {{task_queues[j][k].id : k \in 1..Len(task_queues[j])} : j \in QueueIndexes}

\* C12: a stop_task(id) call that finds id in the Active Task Table removes
\* that entry and returns True when the backend's stop succeeds, and leaves
\* the table alone and returns False when it fails; for an id that is not
\* active (unknown or only queued) it returns False and changes nothing; it
\* never changes a queue.
C12_StopTaskOutcome ==
    [][obs'.op = "stop_task" =>
        LET id == obs'.task_id
        IN  /\ task_queues' = task_queues
            /\ id \in DOMAIN active_tasks /\ obs'.stopped =>
                  /\ obs'.result
                  /\ DOMAIN active_tasks' = DOMAIN active_tasks \ {id}
                  /\ \A i \in DOMAIN active_tasks' : active_tasks'[i] = active_tasks[i]
            /\ id \in DOMAIN active_tasks /\ ~ obs'.stopped =>
                  /\ ~ obs'.result
                  /\ active_tasks' = active_tasks
            /\ id \notin DOMAIN active_tasks =>
                  /\ ~ obs'.result
                  /\ active_tasks' = active_tasks]_vars

\* stop_task returned False for an id that only waits in a queue, while
\* another task is active
C12_Witness ==
    /\ obs.op = "stop_task"
    /\ ~ obs.result
    /\ obs.task_id \in QueuedIds
    /\ obs.task_id \notin DOMAIN active_tasks
    /\ DOMAIN active_tasks # {}

\* C13: an add_task call made while the scheduler is not running (before
\* start or after stop) changes no queue.
C13_NoEffectWhenNotRunning ==
    [][obs'.op = "add_task" /\ ~ running => task_queues' = task_queues]_vars

\* C14: every step that changes a queue or the Active Task Table is taken
\* by the one thread that holds the lock: the scheduler thread inside its
\* "with self.lock" block, or a caller of add_task or stop_task that took
\* the free lock for its write and released it; so no such write happens
\* while another thread holds the lock.
C14_MutationsUnderLock ==
    [][task_queues' # task_queues \/ active_tasks' # active_tasks =>
          \/ /\ lock = "sched"
             /\ schedPc = "loop"
             /\ obs'.op \in {"execute", "migrate"}
          \/ /\ lock = "free"
             /\ lock' = "free"
             /\ obs'.op \in {"add_task", "stop_task"}
             /\ obs'.op = "add_task" => active_tasks' = active_tasks
             /\ obs'.op = "stop_task" => task_queues' = task_queues]_vars

\* a caller's stop_task deleted an entry while the scheduler thread and the
\* thread inside stop() both wait for the lock
C14_Witness ==
    /\ obs.op = "stop_task"
    /\ obs.result
    /\ schedPc = "acquire"
    /\ stopPc = "join"
    /\ QueuedCount > 0

\* the number of queue slots taken, over all queues, before and after a step
SlotsBefore == TotalLen(task_queues, priority_levels)
SlotsAfter == TotalLen(task_queues', priority_levels)

C31_FailedExecuteDropsTask ==
    [][/\ (schedPc = "loop" /\ obs'.op = "execute" /\ ~obs'.result) =>
             /\ task_queues' = [task_queues EXCEPT ![obs'.priority + 1] = Tail(@)]
             /\ active_tasks' = active_tasks
             /\ schedPc' = "loop"
             /\ lock' = "sched"
       /\ lock = "sched" =>
             \A j \in QueueIndexes : Len(task_queues'[j]) <= Len(task_queues[j])]_vars

\* the backend refused the head task: it is gone, nothing is active, the
\* tick goes on and another task waits
C31_Witness ==
    /\ obs.op = "execute"
    /\ ~obs.result
    /\ schedPc = "loop"
    /\ DOMAIN active_tasks = {}
    /\ QueuedCount = 1

\* C32: the tick that finds the head of the highest-priority non-empty queue
\* not locally executable offers that task only, removes at most that
\* task, dispatches nothing and ends.
C32_MigrationEndsTick ==
    [][(schedPc = "loop" /\ obs'.op = "migrate") =>
          LET j == CHOOSE k \in NonEmptyQueues : \A m \in NonEmptyQueues : k <= m
              head == task_queues[j][1]
          IN  /\ obs'.priority = j - 1
              /\ \A n \in DOMAIN obs'.sends : obs'.sends[n].payload.task = head
              /\ \A n \in DOMAIN obs'.sends : obs'.sends[n].ok => n = Len(obs'.sends)
              /\ task_queues' = IF obs'.result
                                THEN [task_queues EXCEPT ![j] = Tail(@)]
                                ELSE task_queues
              /\ active_tasks' = active_tasks
              /\ schedPc' = "check"
              /\ lock' = "free"]_vars

\* the tick ended on a migration of the priority-0 head although a slot is
\* free and a task the device can execute waits at priority 1
C32_Witness ==
    /\ obs.op = "migrate"
    /\ obs.priority = 0
    /\ schedPc = "check"
    /\ lock = "free"
    /\ DOMAIN active_tasks = {}
    /\ task_queues[2] # <<>>
    /\ LocallyExecutable(task_queues[2][1], 2)

\* task can be executed at no resource level and no device of the table
\* declares all its required capabilities
Stuck(task) ==
    /\ \A available \in AvailableLevels : ~LocallyExecutable(task, available)
    /\ \A i \in DOMAIN available_devices :
          \E n \in DOMAIN task.required_capabilities :
              task.required_capabilities[n] \notin DOMAIN available_devices[i].capabilities

\* the head of the highest-priority non-empty queue is stuck
HeadStuck ==
    /\ NonEmptyQueues # {}
    /\ Stuck(task_queues[CHOOSE k \in NonEmptyQueues : \A m \in NonEmptyQueues : k <= m][1])

\* C33: every step keeps each queue's tasks in place and adds nothing to
\* the Active Task Table, unless the head of the highest-priority non-empty
\* queue can be executed or migrated; a migration whose sends all fail
\* changes nothing.
C33_StuckHeadBlocksQueues ==
    [][/\ \/ UNCHANGED <<task_queues, active_tasks>>
          \/ /\ DOMAIN active_tasks' \subseteq DOMAIN active_tasks
             /\ \A j \in QueueIndexes :
                   /\ Len(task_queues'[j]) >= Len(task_queues[j])
                   /\ SubSeq(task_queues'[j], 1, Len(task_queues[j])) = task_queues[j]
          \/ ~HeadStuck
       /\ (schedPc = "loop" /\ obs'.op = "migrate" /\ ~obs'.result) =>
             /\ task_queues' = task_queues
             /\ active_tasks' = active_tasks]_vars

\* a migration attempt for the stuck head failed while a slot is free and a
\* task the device can execute waits at priority 1
C33_Witness ==
    /\ HeadStuck
    /\ obs.op = "migrate"
    /\ ~obs.result
    /\ task_queues[1] # <<>>
    /\ task_queues[2] # <<>>
    /\ LocallyExecutable(task_queues[2][1], 2)
    /\ DOMAIN active_tasks = {}

\* C35: an entry leaves the Active Task Table only in a stop_task call, and
\* while the table holds max_concurrent entries no step other than
\* stop_task takes a task out of a queue or changes the table.
C35_OnlyStopTaskFreesSlot ==
    [][/\ ~(DOMAIN active_tasks \subseteq DOMAIN active_tasks') =>
             /\ obs'.op = "stop_task"
             /\ obs'.result
       /\ (Cardinality(DOMAIN active_tasks) >= max_concurrent /\ obs'.op # "stop_task") =>
             /\ active_tasks' = active_tasks
             /\ obs'.op \notin {"execute", "migrate"}
             /\ \A j \in QueueIndexes :
                   /\ Len(task_queues'[j]) >= Len(task_queues[j])
                   /\ SubSeq(task_queues'[j], 1, Len(task_queues[j])) = task_queues[j]]_vars

\* the table is full, tasks wait, and the scheduler has just ended a tick
\* under the lock without touching them
C35_Witness ==
    /\ Cardinality(DOMAIN active_tasks) = max_concurrent
    /\ QueuedCount = MaxQueued
    /\ schedPc = "check"
    /\ running
    /\ obs.op = "none"
    /\ lock = "free"

----------------------------------------------------------------------------
(* Properties of the discovery loop, checked under SpecDiscovery *)

\* the device ids that the handlers whose discovery returned reported in
\* the cycle just taken
ReportedIds(c) == UNION {Range(c.reports[k].devices) : k \in DOMAIN c.reports}

\* C16: after a discovery cycle, every device with a status that no
\* transport has reported for more than 2 x discovery_interval has status
\* 'disconnected'.
C16_StaleBecomesDisconnected ==
    cycle.op = "cycle" =>
        \A id \in DOMAIN device_status :
            cycle.current_time - last_reported[id] > 2 * discovery_interval
                => device_status[id] = "disconnected"

\* C17: a device that has a record in the Device Directory has one in every
\* later state.
C17_RecordPersists ==
    [][\A i \in DOMAIN available_devices :
          \E j \in DOMAIN available_devices' :
              available_devices'[j].id = available_devices[i].id]_vars

\* the statuses a device can have
Statuses == {"new", "active", "reconnected", "disconnected"}

\* C18: the merge of a discovery cycle leaves every discovered device with
\* status 'new' when it had none, 'reconnected' when it was 'disconnected',
\* and its previous status otherwise; and every status is one of new,
\* active, reconnected, disconnected.
C18_StatusTransitions ==
    [][/\ cycle'.op = "cycle" =>
            \A id \in ReportedIds(cycle') :
                /\ id \in DOMAIN cycle'.merged
                /\ cycle'.merged[id] =
                      IF id \notin DOMAIN device_status THEN "new"
                      ELSE IF device_status[id] = "disconnected" THEN "reconnected"
                      ELSE device_status[id]
       /\ \A id \in DOMAIN device_status' : device_status'[id] \in Statuses]_vars

\* C19: after a discovery cycle every device reported by a handler is in
\* the Device Directory, its last_seen a time read in that cycle and its
\* protocol the name of a transport that reported it.
C19_ReportedDevicesMerged ==
    cycle.op = "cycle" =>
        \A k \in DOMAIN cycle.reports :
            \A id \in Range(cycle.reports[k].devices) :
                \E i \in DOMAIN available_devices :
                    /\ available_devices[i].id = id
                    /\ \E j \in DOMAIN cycle.reports :
                          /\ id \in Range(cycle.reports[j].devices)
                          /\ available_devices[i].protocol = Protocols[j]
                          /\ available_devices[i].last_seen = cycle.returned[j]

\* C20: every step that gives a device a status it did not have delivers
\* the call (device id, new status) to the Orchestrator.
C20_StatusChangeReported ==
    [][\A id \in DOMAIN device_status' :
          id \notin DOMAIN device_status \/ device_status'[id] # device_status[id] =>
              \E n \in DOMAIN cycle'.notified :
                  cycle'.notified[n] = <<id, device_status'[id]>>]_vars

----------------------------------------------------------------------------
(* Properties of messaging and security, checked under SpecComm *)

\* C21: send_data with a protocol uses only that handler and fails when it
\* is not configured; with none it tries the handlers in registration
\* order up to the first success; it reports success exactly when some
\* handler transmitted the data.
C21_SendDataOutcome ==
    msg.op = "send_data" =>
        /\ msg.input.protocol # "none" =>
              IF msg.input.protocol \in Range(Protocols)
              THEN msg.calls = <<msg.input.protocol>>
              ELSE msg.calls = <<>> /\ ~msg.result
        /\ msg.input.protocol = "none" =>
              /\ Len(msg.calls) <= Len(Protocols)
              /\ msg.calls = SubSeq(Protocols, 1, Len(msg.calls))
        /\ msg.result <=> msg.wire # <<>>

\* C22: broadcast_data with no protocol invokes every configured handler,
\* with a protocol only that handler (failing when it is not configured),
\* and reports success exactly when at least one handler transmitted.
C22_BroadcastDataOutcome ==
    msg.op = "broadcast_data" =>
        /\ msg.input.protocol = "none" => msg.calls = Protocols
        /\ msg.input.protocol # "none" =>
              IF msg.input.protocol \in Range(Protocols)
              THEN msg.calls = <<msg.input.protocol>>
              ELSE msg.calls = <<>> /\ ~msg.result
        /\ msg.result <=> msg.wire # <<>>

\* the envelope of the last receive_data carried a signature that does not
\* verify at the time of the call
Unverified(m) ==
    /\ m.op = "receive_data"
    /\ "signature" \in DOMAIN m.input.data
    /\ ~verify_token(m.input.data.signature, m.input.data, m.input.t)

\* C23: receive_data of an envelope whose signature does not verify returns
\* False, attempts no decryption, never calls handle_received_data and
\* leaves the queues, the Active Task Table and the Device Directory as
\* they were.
C23_UnverifiedRejected ==
    [][Unverified(msg') =>
          /\ ~msg'.result
          /\ msg'.calls = <<"verify_token">>
          /\ UNCHANGED <<task_queues, active_tasks, available_devices>>]_vars

C23_Witness ==
    /\ Unverified(msg)
    /\ msg.input.data.signature.key # encryption_key
    /\ ~msg.result

\* the envelope of the last receive_data was signed and encrypted under
\* this agent's key
SignedByKeyHolder(m) ==
    /\ m.op = "receive_data"
    /\ "signature" \in DOMAIN m.input.data
    /\ m.input.data.signature.key = encryption_key
    /\ m.input.data.data.body.key = encryption_key
    /\ m.input.data.data.mac.key = encryption_key

\* C24: receive_data of an envelope signed and encrypted by a holder of the
\* shared key verifies, decrypts and passes the plaintext to
\* handle_received_data.
C24_SignedEnvelopeDelivered ==
    SignedByKeyHolder(msg) => "handle_received_data" \in Range(msg.calls)

\* C25: every message that reaches handle_received_data came through
\* receive_data and passed signature verification and decryption first.
C25_HandlerBehindVerification ==
    "handle_received_data" \in Range(msg.calls) =>
        /\ msg.op = "receive_data"
        /\ "verify_token" \in Range(msg.calls)
        /\ "decrypt_data" \in Range(msg.calls)

\* C26: verify_token of the token generate_token just returned for the same
\* data is true, and verify_token of that token with one bit flipped is
\* false.
C26_SignThenVerify ==
    msg.op = "verify_token" =>
        /\ msg.input.bit = 0 => msg.result
        /\ msg.input.bit # 0 => ~msg.result

\* C29: after an announcement was handed to handle_received_data the Device
\* Directory holds a record for its sender_id with the announced
\* capability set.
C29_AnnouncementRecorded ==
    (msg.op = "handle_message" /\ msg.input.data.type = "announcement") =>
        \E i \in DOMAIN available_devices :
            /\ available_devices[i].id = msg.input.data.sender_id
            /\ available_devices[i].capabilities = msg.input.data.capabilities

----------------------------------------------------------------------------
(* Properties of the agent life cycle, checked under SpecAgent *)

\* C27: when AgentCore.start has returned False because a transport handler
\* failed to start, nothing is left running: the scheduler's flag, every
\* handler's flag, the discovery loop's flag and the agent's flag are false.
C27_FailedStartLeavesNothingRunning ==
    agentPc = "start_failed" =>
        /\ ~running
        /\ \A k \in DOMAIN Protocols : ~handler_running[k]
        /\ ~comm_running
        /\ ~agent_running

\* C28: once AgentCore.stop has returned, the scheduling loop starts no
\* further tick and the discovery loop performs no further cycle.
C28_LoopsExitAfterStop ==
    [][(agentPc = "stopped" \/ agentPc = "stop_failed") =>
          /\ ~(schedPc = "check" /\ schedPc' = "acquire")
          /\ UNCHANGED available_devices]_vars

\* C39: an awaited transport send to a peer whose connection stays closed
\* makes at most max_retries send attempts (WiFi) and returns False; a
\* Bluetooth connect makes at most max_retries attempts; send_data of
\* either handler never raises.
C39_BoundedRetries ==
    /\ msg.op = "wifi.send_data" =>
          /\ msg.input.attempts <= max_retries
          /\ ~msg.input.raised
          /\ (\A n \in 1..max_retries : msg.input.outcome[n] # "done") => ~msg.result
    /\ msg.op = "bluetooth.send_data" =>
          /\ msg.input.attempts <= 1
          /\ ~msg.input.raised
          /\ msg.input.outcome[1] # "done" => ~msg.result
    /\ msg.op = "bluetooth.connect_device" =>
          /\ msg.input.attempts <= max_retries
          /\ (\A n \in 1..max_retries : msg.input.outcome[n] # "done") => ~msg.result

\* the WiFi send found the connection closed at every attempt, every
\* reconnect reported success, and it gave up after max_retries attempts
C39_Witness ==
    /\ msg.op = "wifi.send_data"
    /\ msg.input.in_clients
    /\ \A n \in Attempts : msg.input.outcome[n] = "closed"
    /\ msg.input.reconnects = max_retries
    /\ msg.input.attempts = max_retries
    /\ ~msg.result

\* the priority a task message carries, 0 when it carries none
CarriedPriority(data) == IF "priority" \in DOMAIN data THEN data.priority ELSE 0

\* C37: handle_received_data appends an offered task to the queue at the
\* priority index the message carries (0 if it carries none) and returns
\* True; when that index is outside [0, priority_levels) it returns False
\* and leaves every queue as it was.
C37_OfferEnqueuedAtCarriedPriority ==
    [][(/\ msg'.op = "handle_message"
        /\ msg'.input.data.type = "task"
        /\ "task" \in DOMAIN msg'.input.data) =>
          LET priority == CarriedPriority(msg'.input.data)
          IN  IF priority >= 0 /\ priority < priority_levels
              THEN /\ msg'.result
                   /\ \A j \in QueueIndexes :
                         IF j = priority + 1
                         THEN /\ Len(task_queues'[j]) = Len(task_queues[j]) + 1
                              /\ SubSeq(task_queues'[j], 1, Len(task_queues[j])) = task_queues[j]
                              /\ task_queues'[j][Len(task_queues'[j])].id =
                                    msg'.input.data.task.id
                         ELSE task_queues'[j] = task_queues[j]
              ELSE /\ ~msg'.result
                   /\ task_queues' = task_queues]_vars

\* the offer a sender with one more priority level built for its lowest
\* queue arrived, was rejected, and the task is in no queue of the receiver
C37_Witness ==
    /\ msg.op = "handle_message"
    /\ msg.input.data = TaskOffer(RemoteTask, priority_levels)
    /\ ~msg.result
    /\ \A j \in QueueIndexes : task_queues[j] = <<>>

-----------------------------------------------------------------------------
(* The device backend next to the Active Task Table *)

\* a configuration whose 'max_concurrent' leaves room for a second task
backend_slots == max_concurrent + 1

\* the executions one run of the backend is followed for
MaxExecutions == 3

\* "while len(self.active_tasks) < self.max_concurrent" under that configuration
BackendHasFreeSlot(active) == Cardinality(DOMAIN active) < backend_slots

\* the backend's executions after stop_task(id) returned True: every
\* execution that carries the id is taken as stopped
BackendStopped(executions, id) == SelectSeq(executions, LAMBDA e : e # id)

\* _scheduler_loop: one iteration of the inner while whose head task the
\* device can execute.  An execute_task that returns True leaves one more
\* execution running on the backend, and "self.active_tasks[task['id']] = task"
\* records it under the task's id.
BackendExecute ==
    /\ BackendHasFreeSlot(active_tasks)
    /\ FirstNonEmpty(task_queues) >= 0
    /\ Len(backend_tasks) < MaxExecutions
    /\ LET priority == FirstNonEmpty(task_queues)
           task == task_queues[priority + 1][1]
       IN  \E available \in AvailableLevels, started \in BOOLEAN :
             /\ can_execute_task(task, Resources(available))
             /\ task_queues' = PopQueue(task_queues, priority)
             /\ active_tasks' = IF started THEN Activate(active_tasks, task)
                                ELSE active_tasks
             /\ backend_tasks' = IF started THEN Append(backend_tasks, task.id)
                                 ELSE backend_tasks
             /\ obs' = [Obs("execute", priority, started)
                          EXCEPT !.can_execute = TRUE, !.available = available,
                                 !.task_id = task.id]
    /\ UNCHANGED <<running, lock, schedPc, stopPc, available_devices, discoveryVars,
                   agentVars, head_read, tables, table_ref, building, reader>>

\* TaskManager.stop_task for an id of the table; stopped is what
\* device_adapter.stop_task returns
BackendStopTask ==
    \E id \in DOMAIN active_tasks, stopped \in BOOLEAN :
        /\ active_tasks' = IF stopped THEN Deactivate(active_tasks, id) ELSE active_tasks
        /\ backend_tasks' = IF stopped THEN BackendStopped(backend_tasks, id)
                            ELSE backend_tasks
        /\ obs' = [Obs("stop_task", 0, stopped) EXCEPT !.task_id = id, !.stopped = stopped]
        /\ UNCHANGED <<task_queues, running, lock, schedPc, stopPc, available_devices,
                       discoveryVars, agentVars, head_read, tables, table_ref,
                       building, reader>>

NextBackend ==
    \/ AddTaskAccepted
    \/ BackendExecute
    \/ BackendStopTask

SpecBackend == Init /\ [][NextBackend]_vars

\* C34: the executions the backend accepted and that were not stopped are
\* entries of the Active Task Table, one entry each, so the backend never
\* runs more of them than max_concurrent.
C34_RunningTasksAreTableEntries ==
    /\ Len(backend_tasks) <= Cardinality(DOMAIN active_tasks)
    /\ Len(backend_tasks) <= backend_slots

-----------------------------------------------------------------------------
(* The migration step of the scheduler, statement by statement *)

\* _scheduler_loop, lines 169-189: the scan found the head of the first
\* non-empty queue, can_execute_task refused it, and _try_migrate_task is
\* entered with that task and priority; get_available_devices returns the
\* table of that moment.  The scheduler holds the lock.
MigrateRead ==
    /\ schedPc = "loop"
    /\ HasFreeSlot(active_tasks)
    /\ FirstNonEmpty(task_queues) >= 0
    /\ LET priority == FirstNonEmpty(task_queues)
           task == task_queues[priority + 1][1]
       IN  \E available \in AvailableLevels :
             /\ ~ can_execute_task(task, Resources(available))
             /\ head_read' = [task |-> task, priority |-> priority,
                              devices |-> available_devices, sends |-> <<>>]
             /\ obs' = [Obs("read_head", priority, FALSE) EXCEPT !.available = available]
    /\ schedPc' = "send"
    /\ UNCHANGED <<task_queues, active_tasks, running, lock, stopPc, available_devices,
                   discoveryVars, agentVars, backend_tasks, tables, table_ref,
                   building, reader>>

\* _try_migrate_task, lines 211-220: the loop over devices.items() with its
\* send_data calls.  When no send succeeded the function returns, the tick
\* breaks and the lock is released; otherwise line 222 is next.
MigrateSend ==
    /\ schedPc = "send"
    /\ \E sendOk \in [DeviceIds -> BOOLEAN] :
          LET sends == MigrationSends(head_read.devices, 1, head_read.task,
                                      head_read.priority, sendOk)
          IN  IF Migrated(sends)
              THEN /\ head_read' = [head_read EXCEPT !.sends = sends]
                   /\ schedPc' = "pop"
                   /\ obs' = [Obs("send", head_read.priority, TRUE) EXCEPT !.sends = sends]
                   /\ lock' = lock
              ELSE /\ head_read' = NoRead
                   /\ schedPc' = "check"
                   /\ obs' = [Obs("migrate", head_read.priority, FALSE)
                                EXCEPT !.sends = sends]
                   /\ lock' = "free"
    /\ UNCHANGED <<task_queues, active_tasks, running, stopPc, available_devices,
                   discoveryVars, agentVars, backend_tasks, tables, table_ref,
                   building, reader>>

\* _try_migrate_task, lines 222-223: "self.task_queues[priority].pop(0)" and
\* break; the tick breaks and the lock is released
MigratePop ==
    /\ schedPc = "pop"
    /\ task_queues' = PopQueue(task_queues, head_read.priority)
    /\ obs' = [Obs("migrate", head_read.priority, TRUE)
                 EXCEPT !.sends = head_read.sends,
                        !.task_id = task_queues[head_read.priority + 1][1].id]
    /\ head_read' = NoRead
    /\ schedPc' = "check"
    /\ lock' = "free"
    /\ UNCHANGED <<active_tasks, running, stopPc, available_devices, discoveryVars,
                   agentVars, backend_tasks, tables, table_ref, building, reader>>

NextMigrate ==
    \/ Start
    \/ AddTaskAccepted
    \/ SchedCheck
    \/ SchedAcquire
    \/ SchedRelease
    \/ SchedExecute
    \/ MigrateRead
    \/ MigrateSend
    \/ MigratePop
    \/ DiscoveryCycle

SpecMigrate == Init /\ [][NextMigrate]_vars

\* the scheduler is between reading the head and popping it
InMigration == schedPc = "send" \/ schedPc = "pop"

\* the head of the queue the scheduler read from is the task it read
HeadAsRead ==
    /\ task_queues[head_read.priority + 1] # <<>>
    /\ task_queues[head_read.priority + 1][1] = head_read.task

\* C36: with add_task running concurrently, the head of the queue stays the
\* task the scheduler read from the read until the pop, and the pop after a
\* successful send removes exactly the task the offer carried.
C36_PoppedTaskIsSentTask ==
    [][/\ InMigration => HeadAsRead
       /\ (schedPc = "pop" /\ schedPc' = "check") =>
             /\ task_queues' = PopQueue(task_queues, head_read.priority)
             /\ obs'.sends[Len(obs'.sends)].payload.task =
                   task_queues[head_read.priority + 1][1]]_vars

\* a task was migrated and popped while another submitted task waits in
\* the queues
C36_Witness ==
    /\ obs.op = "migrate"
    /\ obs.result
    /\ obs.sends # <<>>
    /\ QueuedCount > 0

-----------------------------------------------------------------------------
(* The device table as an object shared by the discovery loop and the
   migration step *)

\* the dict objects one run is followed for
MaxTables == 3

\* mutant: the cycle merges into the published table itself,
\* "discovered_devices = self.available_devices"
SnapBeginInPlace ==
    /\ building = NotBuilding
    /\ Len(tables) < MaxTables
    /\ building' = [ref |-> table_ref, handler |-> 1]
    /\ UNCHANGED <<task_queues, active_tasks, running, lock, schedPc, stopPc,
                   available_devices, obs, discoveryVars, agentVars, backend_tasks,
                   head_read, tables, table_ref, reader>>

\* _discovery_loop, line 126: "discovered_devices = {}" creates a new dict
\* that only the discovery thread refers to
SnapBegin ==
    /\ building = NotBuilding
    /\ Len(tables) < MaxTables
    /\ tables' = Append(tables, <<>>)
    /\ building' = [ref |-> Len(tables) + 1, handler |-> 1]
    /\ UNCHANGED <<task_queues, active_tasks, running, lock, schedPc, stopPc,
                   available_devices, obs, discoveryVars, agentVars, backend_tasks,
                   head_read, table_ref, reader>>

\* _discovery_loop, lines 129-155: one handler's discover_devices() and the
\* merge of what it returned into discovered_devices
SnapMerge ==
    /\ building # NotBuilding
    /\ building.handler <= Len(Protocols)
    /\ \E report \in Reports :
          LET m == IF report.raised
                   THEN [discovered |-> tables[building.ref], status |-> device_status,
                         notified |-> <<>>]
                   ELSE MergeDevices([discovered |-> tables[building.ref],
                                      status |-> device_status, notified |-> <<>>],
                                     report.devices, 1, Protocols[building.handler], now)
          IN  /\ tables' = [tables EXCEPT ![building.ref] = m.discovered]
              /\ device_status' = m.status
    /\ building' = [building EXCEPT !.handler = @ + 1]
    /\ UNCHANGED <<task_queues, active_tasks, running, lock, schedPc, stopPc,
                   available_devices, obs, now, last_reported, cycle, agentVars,
                   backend_tasks, head_read, table_ref, reader>>

\* _discovery_loop, lines 157-165: "self.available_devices = discovered_devices"
\* makes the attribute refer to the finished dict; the sweep reads a list
\* copy of its items and writes no entry (no record is stale at the time of
\* its own cycle)
SnapPublish ==
    /\ building # NotBuilding
    /\ building.handler > Len(Protocols)
    /\ table_ref' = building.ref
    /\ building' = NotBuilding
    /\ UNCHANGED <<task_queues, active_tasks, running, lock, schedPc, stopPc,
                   available_devices, obs, discoveryVars, agentVars, backend_tasks,
                   head_read, tables, reader>>

\* _try_migrate_task, lines 209-211: "devices = get_available_devices()"
\* returns the object the attribute refers to, and devices.items() starts
\* to iterate it
ReaderGet ==
    /\ reader = NotReading
    /\ reader' = [ref |-> table_ref, position |-> 0, items |-> tables[table_ref]]
    /\ UNCHANGED <<task_queues, active_tasks, running, lock, schedPc, stopPc,
                   available_devices, obs, discoveryVars, agentVars, backend_tasks,
                   head_read, tables, table_ref, building>>

\* _try_migrate_task, lines 211-223: the iteration takes the next item of
\* the dict, or ends after the last one
ReaderNext ==
    /\ reader # NotReading
    /\ reader' = IF reader.position < Len(tables[reader.ref])
                 THEN [reader EXCEPT !.position = @ + 1]
                 ELSE NotReading
    /\ UNCHANGED <<task_queues, active_tasks, running, lock, schedPc, stopPc,
                   available_devices, obs, discoveryVars, agentVars, backend_tasks,
                   head_read, tables, table_ref, building>>

NextSnapshot ==
    \/ SnapBegin
    \/ SnapMerge
    \/ SnapPublish
    \/ ReaderGet
    \/ ReaderNext

SpecSnapshot == Init /\ [][NextSnapshot]_vars

\* C38: the table get_available_devices returns is never the dict a running
\* cycle is still merging into (it is the dict a completed cycle published,
\* or the empty dict of the constructor before the first cycle ends), and
\* the dict the migration step iterates keeps the entries it had when the
\* iteration began.
C38_ReaderSeesCompletedCycle ==
    /\ table_ref # building.ref
    /\ reader # NotReading =>
          /\ reader.ref # building.ref
          /\ tables[reader.ref] = reader.items

\* the migration step is inside its iteration of a published non-empty
\* table while the discovery loop has merged a device into the next one
C38_Witness ==
    /\ reader # NotReading
    /\ reader.position >= 1
    /\ tables[reader.ref] # <<>>
    /\ building # NotBuilding
    /\ tables[building.ref] # <<>>

====
